---- MODULE Spec2Model ----
(***************************************************************************)
(* The `live` command of the agent-analytics CLI (bin/cli.mjs, cmdLive):   *)
(* resolve the target projects, then loop forever: fan out one live        *)
(* snapshot request per project, wait for all of them, aggregate, redraw   *)
(* the whole screen, sleep.  SIGINT / SIGTERM restore the cursor and exit. *)
(***************************************************************************)
EXTENDS Integers, Sequences, FiniteSets, TLC

VARIABLES
    pc,             \* where the process is: main, listing, fetching, sleeping, exited
    apiKey,         \* the key of the API client requireKey built, Null before that
    project,        \* cmdLive's project: the positional filter, Null when none
    serverProjects, \* the names of the account's projects, as the server lists them
    projectNames,   \* cmdLive's projectNames: the target projects, in order
    settled,        \* per target project: the promise of this tick's fetch
    inflight,       \* live-snapshot requests on the wire: [idx, tick]
    tick,           \* number of fan-outs started so far (saturates at MaxTicks)
    frame,          \* what the last full-screen redraw put on the terminal
    frameTick,      \* the tick whose snapshots the frame on screen was built from
    timers,         \* pending setTimeout timers of the inter-tick sleep
    cursorHidden,   \* the terminal cursor is hidden (ESC[?25l written, ESC[?25h not yet)
    handlers,       \* the SIGINT / SIGTERM handlers are registered
    signal,         \* the signal that ended the process, "" when none
    exitCode,       \* the exit status, Undef while the process runs
    errorMsg,       \* the message error() printed, "" when none
    args,           \* process.argv.slice(2): the command word and what follows it
    interval,       \* cmdLive's interval, NaN before it is parsed
    windowSec,      \* cmdLive's windowSec, NaN before it is parsed
    header,         \* the interval and window the header of the last frame shows
    sleepMs,        \* the delay handed to the last setTimeout
    listCalls,      \* number of api.listProjects() calls made
    env,            \* process.env: the variables the CLI reads
    configFile,     \* ~/.config/agent-analytics/config.json
    config,         \* the configuration object a function of lib/config or cmdLogin holds
    http,           \* one call of AgentAnalyticsAPI.request and its fetch
    sent,           \* the getLive calls of the iteration under way, in call order
    arrived,        \* the projects whose getLive has settled in this iteration, in that order
    writes          \* what the iteration under way has written to stdout, in order

vars == <<pc, apiKey, project, serverProjects, projectNames, settled, inflight,
          tick, frame, frameTick, timers, cursorHidden, handlers, signal, exitCode,
          errorMsg, args, interval, windowSec, header, sleepMs, listCalls, env,
          configFile, config, http, sent, arrived, writes>>

----------------------------------------------------------------------------
(* Bounds of the model *)

MaxProjects == 3
MaxTicks == 2
MaxAggProjects == 4

----------------------------------------------------------------------------
(* Values *)

\* a field that is absent from a JSON payload (JavaScript undefined)
Undef == -1

\* the per-project and per-frame caps of cmdLive
PerProjectCap == 3
TopPagesCap == 8
RecentCap == 10

AllNames == <<"A", "B", "C", "D", "E", "F">>

Min(a, b) == IF a < b THEN a ELSE b

\* top_pages / recent_events of a payload, given the visitors / timestamps in
\* the order the server returned them
PageList(vs) == [i \in 1..Len(vs) |-> [path |-> i, visitors |-> vs[i]]]
EventList(ts) == [i \in 1..Len(ts) |-> [event |-> i, timestamp |-> ts[i]]]

\* Live snapshot payloads (the body of a successful GET /live response)
Busy == [active_visitors |-> 3, active_sessions |-> 2, events_per_minute |-> 10,
         top_pages |-> PageList(<<5, 3, 1>>), recent_events |-> EventList(<<9, 8, 7>>)]
Zero == [active_visitors |-> 0, active_sessions |-> 0, events_per_minute |-> 0,
         top_pages |-> <<>>, recent_events |-> <<>>]
Sparse == [active_visitors |-> Undef, active_sessions |-> 1, events_per_minute |-> 0,
           top_pages |-> PageList(<<3>>), recent_events |-> EventList(<<8, 8>>)]
Long == [active_visitors |-> 1, active_sessions |-> 1, events_per_minute |-> Undef,
         top_pages |-> PageList(<<3, 3, 5, 9>>), recent_events |-> EventList(<<8, 7, 9, 9>>)]
Ties == [active_visitors |-> 0, active_sessions |-> 0, events_per_minute |-> 4,
         top_pages |-> PageList(<<5, 5, 3>>), recent_events |-> EventList(<<9, 9, Undef>>)]
Rising == [active_visitors |-> 2, active_sessions |-> 3, events_per_minute |-> 1,
           top_pages |-> PageList(<<1, 3, 5>>), recent_events |-> EventList(<<7, 8, 9>>)]

LiveResponses == {Busy, Zero, Sparse}
AggResponses == {Busy, Zero, Sparse, Long, Ties, Rising}

----------------------------------------------------------------------------
(* cmdLive: the per-project fetch *)

\* { name, ...snap }
WithName(name, snap) ==
    [name |-> name,
     active_visitors |-> snap.active_visitors,
     active_sessions |-> snap.active_sessions,
     events_per_minute |-> snap.events_per_minute,
     top_pages |-> snap.top_pages,
     recent_events |-> snap.recent_events]

\* the catch branch: the all-zero snapshot that replaces a failed fetch
Fallback(name) ==
    [name |-> name, active_visitors |-> 0, active_sessions |-> 0,
     events_per_minute |-> 0, top_pages |-> <<>>, recent_events |-> <<>>]

\* a promise of the fan-out that has not settled yet
Pending(name) == [done |-> FALSE, failed |-> FALSE, value |-> Fallback(name)]

\* Promise.all taken for Promise.allSettled that waits for fulfilled promises only
AllSettledFulfilled(ps) == \A i \in DOMAIN ps : ps[i].done /\ ~ps[i].failed

\* Promise.all taken for Promise.race: resolves with the first promise to settle
AnySettled(ps) == \E i \in DOMAIN ps : ps[i].done

\* Promise.all: resolves when every promise of the array has settled
AllSettled(ps) == \A i \in DOMAIN ps : ps[i].done

\* the results of the fulfilled fetches only, the failed ones dropped
SnapshotsFulfilled(ps) ==
    LET kept == SelectSeq(ps, LAMBDA q : ~q.failed)
    IN [i \in DOMAIN kept |-> kept[i].value]

\* the array Promise.all resolves to
Snapshots(ps) == [i \in DOMAIN ps |-> ps[i].value]

----------------------------------------------------------------------------
(* cmdLive: aggregation *)

\* x || 0
OrZero(x) == IF x = Undef THEN 0 ELSE x

\* slice() without its bounds: the whole array
sliceAll(s, n) == s

\* Array.prototype.slice(0, n)
slice(s, n) == SubSeq(s, 1, Min(n, Len(s)))

TagPages(ps, name) ==
    [i \in DOMAIN ps |-> [path |-> ps[i].path, visitors |-> ps[i].visitors, project |-> name]]
TagEvents(es, name) ==
    [i \in DOMAIN es |-> [event |-> es[i].event, timestamp |-> es[i].timestamp, project |-> name]]

\* the body of `for (const snap of snapshots)` written with = where the code has +=
AddSnapshotOverwrite(acc, snap) ==
    [totalVisitors |-> IF snap.active_visitors = -1 THEN 0 ELSE snap.active_visitors,
     totalSessions |-> IF snap.active_sessions = -1 THEN 0 ELSE snap.active_sessions,
     totalEpm |-> IF snap.events_per_minute = -1 THEN 0 ELSE snap.events_per_minute,
     allPages |-> acc.allPages \o TagPages(slice(snap.top_pages, PerProjectCap), snap.name),
     allRecent |-> acc.allRecent \o TagEvents(slice(snap.recent_events, PerProjectCap), snap.name)]

\* the body of `for (const snap of snapshots)`: add the counts, push the first
\* PerProjectCap pages and events, tagged with the project
AddSnapshot(acc, snap) ==
    [totalVisitors |-> acc.totalVisitors + OrZero(snap.active_visitors),
     totalSessions |-> acc.totalSessions + OrZero(snap.active_sessions),
     totalEpm |-> acc.totalEpm + OrZero(snap.events_per_minute),
     allPages |-> acc.allPages \o TagPages(slice(snap.top_pages, PerProjectCap), snap.name),
     allRecent |-> acc.allRecent \o TagEvents(slice(snap.recent_events, PerProjectCap), snap.name)]

\* the for-loop with its accumulators declared outside `while (true)`: each
\* iteration adds to what the frame before it showed
RECURSIVE AccumulateCarry(_, _)
AccumulateCarry(snapshots, k) ==
    IF k = 0
    THEN [totalVisitors |-> frame.totalVisitors, totalSessions |-> frame.totalSessions,
          totalEpm |-> frame.totalEpm,
          allPages |-> frame.topPages, allRecent |-> frame.recentEvents]
    ELSE CHOOSE next \in
             {AddSnapshot(acc, snapshots[k]) : acc \in {AccumulateCarry(snapshots, k - 1)}} : TRUE

\* the for-loop over snapshots, after its first k iterations
RECURSIVE Accumulate(_, _)
Accumulate(snapshots, k) ==
    IF k = 0
    THEN [totalVisitors |-> 0, totalSessions |-> 0, totalEpm |-> 0,
          allPages |-> <<>>, allRecent |-> <<>>]
    ELSE CHOOSE next \in {AddSnapshot(acc, snapshots[k]) : acc \in {Accumulate(snapshots, k - 1)}} :
             TRUE

\* the comparator (a, b) => (b.key || 0) - (a.key || 0), on keys
CompareDesc(a, b) == OrZero(b) - OrZero(a)

\* one step of an unstable sort: x goes before the elements it ties with
InsertSortedUnstable(sorted, x, keys) ==
    LET later == {p \in 1..Len(sorted) : CompareDesc(keys[sorted[p]], keys[x]) >= 0}
        pos == IF later = {} THEN Len(sorted) + 1
               ELSE CHOOSE p \in later : \A q \in later : p <= q
    IN SubSeq(sorted, 1, pos - 1) \o <<x>> \o SubSeq(sorted, pos, Len(sorted))

\* one step of a stable sort: x goes before the first element that the
\* comparator orders after it, and behind everything else
InsertSorted(sorted, x, keys) ==
    LET later == {p \in 1..Len(sorted) : CompareDesc(keys[sorted[p]], keys[x]) > 0}
        pos == IF later = {} THEN Len(sorted) + 1
               ELSE CHOOSE p \in later : \A q \in later : p <= q
    IN SubSeq(sorted, 1, pos - 1) \o <<x>> \o SubSeq(sorted, pos, Len(sorted))

\* Array.prototype.sort (stable): the order of the indices 1..k of keys
RECURSIVE SortOrder(_, _)
SortOrder(keys, k) ==
    IF k = 0 THEN <<>>
    ELSE CHOOSE order \in {InsertSorted(sorted, k, keys) : sorted \in {SortOrder(keys, k - 1)}} : TRUE

\* allRecent.sort(by timestamp descending)
SortRecent(allRecent) ==
    LET keys == [i \in DOMAIN allRecent |-> allRecent[i].timestamp]
        order == SortOrder(keys, Len(allRecent))
    IN [i \in DOMAIN allRecent |-> allRecent[order[i]]]

\* allPages.sort with the comparator turned round: visitors ascending
SortPagesAscending(allPages) ==
    LET keys == [i \in DOMAIN allPages |-> allPages[i].visitors]
        order == SortOrder(keys, Len(allPages))
    IN [i \in DOMAIN allPages |-> allPages[order[Len(allPages) + 1 - i]]]

\* allPages.sort(by visitors descending)
SortPages(allPages) ==
    LET keys == [i \in DOMAIN allPages |-> allPages[i].visitors]
        order == SortOrder(keys, Len(allPages))
    IN [i \in DOMAIN allPages |-> allPages[order[i]]]

\* the activity test written with && where the code has ||
ProjectRowBoth(snap) ==
    IF snap.active_visitors > 0 /\ snap.events_per_minute > 0
    THEN [name |-> snap.name, active |-> TRUE, visitors |-> snap.active_visitors,
          sessions |-> snap.active_sessions, epm |-> snap.events_per_minute]
    ELSE [name |-> snap.name, active |-> FALSE, visitors |-> -1,
          sessions |-> -1, epm |-> -1]

\* a project's line: active, with its counts, or idle, with none
ProjectRow(snap) ==
    IF snap.active_visitors > 0 \/ snap.events_per_minute > 0
    THEN [name |-> snap.name, active |-> TRUE, visitors |-> snap.active_visitors,
          sessions |-> snap.active_sessions, epm |-> snap.events_per_minute]
    ELSE [name |-> snap.name, active |-> FALSE, visitors |-> Undef,
          sessions |-> Undef, epm |-> Undef]

\* the lines one iteration of the loop writes after clear-and-home
RenderFrame(snapshots) ==
    CHOOSE lines \in
        {[totalVisitors |-> acc.totalVisitors,
          totalSessions |-> acc.totalSessions,
          totalEpm |-> acc.totalEpm,
          projectCount |-> Len(snapshots),
          rows |-> [i \in DOMAIN snapshots |-> ProjectRow(snapshots[i])],
          topPages |-> slice(SortPages(acc.allPages), TopPagesCap),
          recentEvents |-> slice(SortRecent(acc.allRecent), RecentCap)] :
            acc \in {Accumulate(snapshots, Len(snapshots))}} : TRUE

\* the terminal before the first redraw
NoFrame ==
    [totalVisitors |-> 0, totalSessions |-> 0, totalEpm |-> 0, projectCount |-> 0,
     rows |-> <<>>, topPages |-> <<>>, recentEvents |-> <<>>]

----------------------------------------------------------------------------
(* Values of the command line, the environment and the configuration file *)

\* null and undefined: what an argument that is not there, an unset environment
\* variable and an absent JSON field read as; no string of the model equals it
Null == "(null)"

\* the value undefined where it has to be told from null: a property that is set
\* to undefined, and what reading a property an object does not have gives
Undefined == "(undefined)"

\* the truthiness of a string, null or undefined
Truthy(v) == v # Null /\ v # Undefined /\ v # ""

\* a || b
Or(a, b) == IF Truthy(a) THEN a ELSE b

\* the number NaN, outside the range of the numbers the model parses
NaN == -999

Digits == "0123456789"

\* the i-th character of a string
CharAt(str, i) == SubSeq(str, i, i)

IsDigit(c) == \E d \in 0..9 : CharAt(Digits, d + 1) = c
DigitValue(c) == CHOOSE d \in 0..9 : CharAt(Digits, d + 1) = c

\* the string without its leading white space
RECURSIVE TrimStart(_)
TrimStart(str) ==
    IF Len(str) > 0 /\ CharAt(str, 1) = " " THEN TrimStart(SubSeq(str, 2, Len(str))) ELSE str

\* the value of the run of decimal digits of str that starts at position i,
\* read after the digits worth acc
RECURSIVE ParseDigits(_, _, _)
ParseDigits(str, i, acc) ==
    IF i <= Len(str) /\ IsDigit(CharAt(str, i))
    THEN ParseDigits(str, i + 1, acc * 10 + DigitValue(CharAt(str, i)))
    ELSE acc

\* parseInt(str, 10): white space skipped, an optional sign, then the longest
\* run of digits; what follows the run is ignored, and no digit gives NaN
parseInt(str) ==
    LET t == TrimStart(str)
        signed == Len(t) > 0 /\ CharAt(t, 1) \in {"-", "+"}
        body == IF signed THEN SubSeq(t, 2, Len(t)) ELSE t
    IN IF Len(body) = 0 \/ ~IsDigit(CharAt(body, 1)) THEN NaN
       ELSE IF signed /\ CharAt(t, 1) = "-" THEN 0 - ParseDigits(body, 1, 0)
       ELSE ParseDigits(body, 1, 0)

\* a * b of two numbers, either of which may be NaN
Times(a, b) == IF a = NaN \/ b = NaN THEN NaN ELSE a * b

\* a natural number in decimal
RECURSIVE FormatNat(_)
FormatNat(n) ==
    IF n < 10 THEN CharAt(Digits, n + 1)
    ELSE FormatNat(n \div 10) \o CharAt(Digits, (n % 10) + 1)

\* `${n}`: a number interpolated into a template literal
Format(n) ==
    IF n = NaN THEN "NaN"
    ELSE IF n < 0 THEN "-" \o FormatNat(0 - n)
    ELSE FormatNat(n)

\* args.indexOf(flag), counted from 1; 0 when the flag is not there
IndexOf(argv, flag) ==
    IF \E i \in DOMAIN argv : argv[i] = flag
    THEN CHOOSE i \in DOMAIN argv : argv[i] = flag /\ \A j \in 1..(i - 1) : argv[j] # flag
    ELSE 0

\* getArg(flag): the argument after the flag, null when there is none
getArg(argv, flag) ==
    LET idx == IndexOf(argv, flag)
    IN IF idx > 0 /\ idx + 1 <= Len(argv) /\ Truthy(argv[idx + 1]) THEN argv[idx + 1] ELSE Null

\* str.startsWith('--')
StartsWithDashes(str) == Len(str) >= 2 /\ SubSeq(str, 1, 2) = "--"

\* case 'live': the project is the word after the command unless it is a flag
LiveProject(argv) ==
    IF Len(argv) >= 2 /\ Truthy(argv[2]) /\ ~StartsWithDashes(argv[2]) THEN argv[2] ELSE Null

\* the first lines of cmdLive
Interval(argv) == parseInt(Or(getArg(argv, "--interval"), "5"))
WindowSec(argv) == parseInt(Or(getArg(argv, "--window"), "60"))

\* the parenthesis of the header line
HeaderText(i, w) == Format(i) \o "s refresh, " \o Format(w) \o "s window"

\* {}
EmptyObject == [k \in {} |-> Null]

\* obj[key]: undefined when obj has no such property
Get(obj, key) == IF key \in DOMAIN obj THEN obj[key] ELSE Undefined

\* obj[key] = value
Set(obj, key, value) == [k \in DOMAIN obj \cup {key} |-> IF k = key THEN value ELSE obj[k]]

\* a serialisation that also leaves out the properties holding null or ''
stringifyTruthy(obj) == [k \in {f \in DOMAIN obj : Truthy(obj[f])} |-> obj[k]]

\* JSON.stringify(obj, null, 2): the JSON object the text denotes; a property
\* whose value is undefined is left out, null and strings are written
stringify(obj) == [k \in {f \in DOMAIN obj : obj[f] # Undefined} |-> obj[k]]

\* saveConfig(config): the file after writeFileSync
saveConfig(obj) == [readable |-> TRUE, content |-> stringify(obj)]

\* getConfig(): the parsed file, {} when it cannot be read or parsed
getConfig(file) == IF file.readable THEN file.content ELSE EmptyObject

\* getApiKey()
getApiKey(e, file) == Or(e.AGENT_ANALYTICS_KEY, Or(Get(getConfig(file), "api_key"), Null))

\* getBaseUrl()
getBaseUrl(e, file) ==
    Or(e.AGENT_ANALYTICS_URL, Or(Get(getConfig(file), "base_url"), "https://app.agentanalytics.sh"))

\* setApiKey(key): read the configuration, set api_key, write the file
setApiKey(file, key) == saveConfig(Set(getConfig(file), "api_key", key))

----------------------------------------------------------------------------
(* cmdLive: resolving the target projects *)

\* !projects || projects.length === 0
NoProjects(projects) == Len(projects) = 0

\* project ? projects.filter(p => p.name === project) : projects
TargetProjects(projects, filter) ==
    IF Truthy(filter) THEN SelectSeq(projects, LAMBDA name : name = filter) ELSE projects

\* the not-found check left out
NotFoundNever(filter, targetProjects) == FALSE

\* project && targetProjects.length === 0
NotFound(filter, targetProjects) == Truthy(filter) /\ Len(targetProjects) = 0

----------------------------------------------------------------------------
(* The process *)

ProjectLists == {SubSeq(AllNames, 1, n) : n \in 0..MaxProjects}
LiveCommands == {<<"live">>, <<"live", "A">>, <<"live", "C">>, <<"live", "Z">>}
Signals == {"SIGINT", "SIGTERM"}

\* the status the shell reports for a process killed by a signal it does not handle
KilledBy(sig) ==
    CASE sig = "SIGHUP" -> 129
      [] sig = "SIGINT" -> 130
      [] sig = "SIGQUIT" -> 131
      [] OTHER -> 143

\* an environment with the API key variable set to k
EnvOf(k) == [AGENT_ANALYTICS_KEY |-> k, AGENT_ANALYTICS_API_KEY |-> Null,
             AGENT_ANALYTICS_URL |-> Null]

\* no configuration file
NoFile == [readable |-> FALSE, content |-> EmptyObject]

\* the body of a response: a JSON object (with its error field, Null when it
\* has none), the JSON value null, or text that is not JSON (an HTML page of
\* a gateway, an empty body)
JsonObject(err) == [kind |-> "object", error |-> err]
JsonNull == [kind |-> "null", error |-> Null]
NotJson == [kind |-> "text", error |-> Null]

\* no call of request under way
NoHttp == [method |-> "", headers |-> {}, hasBody |-> FALSE, status |-> 0, body |-> JsonNull,
           message |-> "", data |-> JsonNull]

\* no frame has been written
NoHeader == ""

\* the escape sequences that clear the screen and move the cursor home
ClearAndHome == "\\x1b[2J\\x1b[H"

\* the process at `case 'live'`, about to call cmdLive(liveProject, opts)
Start(argv, e, file, projects) ==
    /\ pc = "main"
    /\ args = argv
    /\ env = e
    /\ configFile = file
    /\ config = EmptyObject
    /\ http = NoHttp
    /\ apiKey = Null
    /\ interval = NaN
    /\ windowSec = NaN
    /\ header = NoHeader
    /\ sleepMs = 0
    /\ listCalls = 0
    /\ sent = <<>>
    /\ arrived = <<>>
    /\ writes = <<>>
    /\ project = LiveProject(argv)
    /\ serverProjects = projects
    /\ projectNames = <<>>
    /\ settled = <<>>
    /\ inflight = {}
    /\ tick = 0
    /\ frame = NoFrame
    /\ frameTick = 0
    /\ timers = 0
    /\ cursorHidden = FALSE
    /\ handlers = FALSE
    /\ signal = ""
    /\ exitCode = Undef
    /\ errorMsg = ""

Init ==
    \E argv \in LiveCommands, k \in {Null, "aak"}, projects \in ProjectLists :
        Start(argv, EnvOf(k), NoFile, projects)

\* an error that prints its message and lets the process end normally
errorExitsZero(msg) ==
    /\ pc' = "exited"
    /\ exitCode' = 0
    /\ errorMsg' = msg
    /\ UNCHANGED <<args, config, sent, arrived, writes, env, configFile, http, apiKey, interval, windowSec, listCalls,
                   project, serverProjects, projectNames, settled, inflight,
                   tick, frame, frameTick, header, sleepMs, timers, cursorHidden, handlers, signal>>

\* error(msg): print the message, process.exit(1)
error(msg) ==
    /\ pc' = "exited"
    /\ exitCode' = 1
    /\ errorMsg' = msg
    /\ UNCHANGED <<args, config, sent, arrived, writes, env, configFile, http, apiKey, interval, windowSec, listCalls,
                   project, serverProjects, projectNames, settled, inflight,
                   tick, frame, frameTick, header, sleepMs, timers, cursorHidden, handlers, signal>>

\* the rest of an iteration, run when `await Promise.all(...)` resumes: aggregate,
\* clear-and-home, write the frame, start the sleep timer.  Until then the loop waits.
Continue(ps, t, awaiting, pendingTimers) ==
    IF awaiting /\ AllSettled(ps)
    THEN /\ frame' = RenderFrame(Snapshots(ps))
         /\ writes' = <<ClearAndHome, "lines">>
         /\ frameTick' = t
         /\ header' = HeaderText(interval, windowSec)
         /\ sleepMs' = Times(interval, 1000)
         /\ timers' = pendingTimers + 1
         /\ pc' = "sleeping"
    ELSE /\ UNCHANGED <<frame, frameTick, header, sleepMs>>
         /\ writes' = IF awaiting /\ pc # "fetching" THEN <<>> ELSE writes
         /\ timers' = pendingTimers
         /\ pc' = IF awaiting THEN "fetching" ELSE pc

\* the head of an iteration: projectNames.map(async name => getLive(name, ...))
\* issues one request per target project, in order, and awaits them all
StartTick(names, pendingTimers) ==
    LET t == Min(tick + 1, MaxTicks)
        ps == [i \in 1..Len(names) |-> Pending(names[i])]
    IN /\ tick' = t
       /\ inflight' = inflight \cup {[idx |-> i, tick |-> t, window |-> windowSec] : i \in 1..Len(names)}
       /\ settled' = ps
       /\ sent' = [i \in 1..Len(names) |-> [name |-> names[i], window |-> windowSec]]
       /\ arrived' = <<>>
       /\ Continue(ps, t, TRUE, pendingTimers)

\* withApi -> requireKey: without a key, error; with one, cmdLive starts: it
\* parses its options and awaits api.listProjects()
requireKey ==
    /\ pc = "main"
    /\ IF ~Truthy(getApiKey(env, configFile))
       THEN error("Not logged in")
       ELSE /\ pc' = "listing"
            /\ apiKey' = getApiKey(env, configFile)
            /\ interval' = Interval(args)
            /\ windowSec' = WindowSec(args)
            /\ listCalls' = listCalls + 1
            /\ UNCHANGED <<args, config, sent, arrived, writes, env, configFile, http,
                   project, serverProjects, projectNames, settled,
                           inflight, tick, frame, frameTick, header, sleepMs, timers, cursorHidden,
                           handlers, signal, exitCode, errorMsg>>

\* api.listProjects() rejects: withApi's catch calls error(err.message)
ListProjectsThrows ==
    /\ pc = "listing"
    /\ error("err.message")

\* api.listProjects() resolves: fail fast, or hide the cursor, register the
\* signal handlers and enter the loop
ListProjectsReturns ==
    /\ pc = "listing"
    /\ LET projects == serverProjects
           targetProjects == TargetProjects(projects, project)
       IN IF NoProjects(projects)
          THEN error("No projects found")
          ELSE IF NotFound(project, targetProjects)
          THEN error("Project not found")
          ELSE /\ projectNames' = targetProjects
               /\ cursorHidden' = TRUE
               /\ handlers' = TRUE
               /\ StartTick(targetProjects, timers)
               /\ UNCHANGED <<args, config, env, configFile, http, apiKey, interval, windowSec, listCalls,
                   project, serverProjects, signal, exitCode, errorMsg>>

\* results kept in the order the promises settle instead of the order of the array
SettleInCompletionOrder(r, result) ==
    /\ r \in inflight
    /\ pc \in {"fetching", "sleeping"}
    /\ inflight' = inflight \ {r}
    /\ LET ps == IF r.tick = tick THEN [settled EXCEPT ![Len(arrived) + 1] = result] ELSE settled
       IN /\ settled' = ps
          /\ arrived' = IF r.tick = tick THEN Append(arrived, r.idx) ELSE arrived
          /\ Continue(ps, tick, pc = "fetching", timers)
    /\ UNCHANGED <<args, config, sent, env, configFile, http, apiKey, interval, windowSec, listCalls,
                   project, serverProjects, projectNames, tick,
                   cursorHidden, handlers, signal, exitCode, errorMsg>>

\* the response to request r arrives; what the promise of r's project settles to
Settle(r, result) ==
    /\ r \in inflight
    /\ pc \in {"fetching", "sleeping"}
    /\ inflight' = inflight \ {r}
    /\ LET ps == IF r.tick = tick THEN [settled EXCEPT ![r.idx] = result] ELSE settled
       IN /\ settled' = ps
          /\ arrived' = IF r.tick = tick THEN Append(arrived, r.idx) ELSE arrived
          /\ Continue(ps, tick, pc = "fetching", timers)
    /\ UNCHANGED <<args, config, sent, env, configFile, http, apiKey, interval, windowSec, listCalls,
                   project, serverProjects, projectNames, tick,
                   cursorHidden, handlers, signal, exitCode, errorMsg>>

\* api.getLive(name, { window }) resolves with a payload
GetLiveReturns(r, snap) ==
    Settle(r, [done |-> TRUE, failed |-> FALSE, value |-> WithName(projectNames[r.idx], snap)])

\* api.getLive rejects and nothing catches it in the loop: the rejection reaches
\* withApi's catch
GetLiveThrowsUncaught(r) ==
    /\ r \in inflight
    /\ pc = "fetching"
    /\ error("err.message")

\* a rejected getLive that is issued again instead of being replaced by the fallback
GetLiveThrowsRetry(r) ==
    /\ r \in inflight
    /\ pc \in {"fetching", "sleeping"}
    /\ Len(sent) <= Len(projectNames)
    /\ sent' = Append(sent, [name |-> projectNames[r.idx], window |-> r.window])
    /\ UNCHANGED <<args, config, arrived, writes, env, configFile, http, apiKey, interval, windowSec, listCalls,
                   project, serverProjects, projectNames, tick, inflight, settled, frame,
                   frameTick, header, sleepMs, timers, pc,
                   cursorHidden, handlers, signal, exitCode, errorMsg>>

\* api.getLive(name, { window }) rejects: the catch substitutes the fallback
GetLiveThrows(r) ==
    Settle(r, [done |-> TRUE, failed |-> TRUE, value |-> Fallback(projectNames[r.idx])])

\* the iterations driven by setInterval: a timer fires whether or not the
\* previous iteration has finished
TimerFiresInterval ==
    /\ pc \in {"fetching", "sleeping"}
    /\ tick < MaxTicks
    /\ StartTick(projectNames, 0)
    /\ UNCHANGED <<args, config, env, configFile, http, apiKey, interval, windowSec, listCalls,
                   project, serverProjects, projectNames,
                   cursorHidden, handlers, signal, exitCode, errorMsg>>

\* a loop that lists the projects again at the head of every iteration
TimerFiresRefresh ==
    /\ pc = "sleeping"
    /\ timers > 0
    /\ listCalls' = listCalls + 1
    /\ projectNames' = TargetProjects(serverProjects, project)
    /\ StartTick(TargetProjects(serverProjects, project), timers - 1)
    /\ UNCHANGED <<args, config, env, configFile, http, apiKey, interval, windowSec,
                   project, serverProjects,
                   cursorHidden, handlers, signal, exitCode, errorMsg>>

\* a loop written `for (let i = 0; i < n; i++)`: the timer of the last
\* iteration starts nothing
TimerFiresBounded ==
    /\ pc = "sleeping"
    /\ timers > 0
    /\ tick < MaxTicks
    /\ StartTick(projectNames, timers - 1)
    /\ UNCHANGED <<args, config, env, configFile, http, apiKey, interval, windowSec, listCalls,
                   project, serverProjects, projectNames,
                   cursorHidden, handlers, signal, exitCode, errorMsg>>

\* the sleep's timer fires: the next iteration begins
TimerFires ==
    /\ pc = "sleeping"
    /\ timers > 0
    /\ StartTick(projectNames, timers - 1)
    /\ UNCHANGED <<args, config, env, configFile, http, apiKey, interval, windowSec, listCalls,
                   project, serverProjects, projectNames,
                   cursorHidden, handlers, signal, exitCode, errorMsg>>

\* a handler that exits without writing the show-cursor sequence
cleanupNoRestore(sig) ==
    /\ handlers
    /\ pc \in {"fetching", "sleeping"}
    /\ signal' = sig
    /\ exitCode' = 0
    /\ pc' = "exited"
    /\ UNCHANGED <<args, config, sent, arrived, writes, env, configFile, http, apiKey, interval, windowSec, listCalls,
                   project, serverProjects, projectNames, settled, inflight,
                   tick, frame, frameTick, header, sleepMs, timers, cursorHidden, handlers, errorMsg>>

\* cleanup: the registered handler of SIGINT and SIGTERM
cleanup(sig) ==
    /\ handlers
    /\ pc \in {"fetching", "sleeping"}
    /\ signal' = sig
    /\ cursorHidden' = FALSE
    /\ exitCode' = 0
    /\ pc' = "exited"
    /\ UNCHANGED <<args, config, sent, arrived, writes, env, configFile, http, apiKey, interval, windowSec, listCalls,
                   project, serverProjects, projectNames, settled, inflight,
                   tick, frame, frameTick, header, sleepMs, timers, handlers, errorMsg>>

\* a signal before the handlers are registered: the default disposition
Killed(sig) ==
    /\ ~handlers
    /\ pc = "listing"
    /\ signal' = sig
    /\ exitCode' = KilledBy(sig)
    /\ pc' = "exited"
    /\ UNCHANGED <<args, config, sent, arrived, writes, env, configFile, http, apiKey, interval, windowSec, listCalls,
                   project, serverProjects, projectNames, settled, inflight,
                   tick, frame, frameTick, header, sleepMs, timers, cursorHidden, handlers, errorMsg>>

Next ==
    \/ requireKey
    \/ ListProjectsThrows
    \/ ListProjectsReturns
    \/ \E r \in inflight, snap \in LiveResponses : GetLiveReturns(r, snap)
    \/ \E r \in inflight : GetLiveThrows(r)
    \/ TimerFires
    \/ \E sig \in Signals : cleanup(sig)
    \/ \E sig \in Signals : Killed(sig)

Spec == Init /\ [][Next]_vars

----------------------------------------------------------------------------
(* The live loop under the scheduling of the runtime: a pending timer fires,  *)
(* and every request in flight is answered or fails                           *)

LiveInit ==
    \E argv \in {<<"live">>, <<"live", "B">>}, projects \in {<<"A", "B">>, <<"B">>} :
        Start(argv, EnvOf("aak"), NoFile, projects)

\* some request in flight settles
FetchSettles ==
    \E r \in inflight :
        \/ \E snap \in LiveResponses : GetLiveReturns(r, snap)
        \/ GetLiveThrows(r)

SpecLive == LiveInit /\ [][Next]_vars /\ WF_vars(TimerFires) /\ WF_vars(FetchSettles)

----------------------------------------------------------------------------
(* AgentAnalyticsAPI.request: one call, its fetch and the response *)

\* a process that runs no live view
NoLive ==
    /\ args = <<>>
    /\ interval = NaN
    /\ windowSec = NaN
    /\ header = NoHeader
    /\ sleepMs = 0
    /\ listCalls = 0
    /\ sent = <<>>
    /\ arrived = <<>>
    /\ writes = <<>>
    /\ project = Null
    /\ serverProjects = <<>>
    /\ projectNames = <<>>
    /\ settled = <<>>
    /\ inflight = {}
    /\ tick = 0
    /\ frame = NoFrame
    /\ frameTick = 0
    /\ timers = 0
    /\ cursorHidden = FALSE
    /\ handlers = FALSE
    /\ signal = ""
    /\ exitCode = Undef
    /\ errorMsg = ""

Methods == {"GET", "POST"}
Statuses == {200, 204, 401, 500, 502}
Bodies == {JsonObject("Invalid API key"), JsonObject(Null), JsonObject(""), JsonNull, NotJson}

\* res.ok
Ok(status) == status \in 200..299

\* the headers with X-API-Key set whether or not the client has a key
HeadersAlways(key) == {<<"Content-Type", "application/json">>, <<"X-API-Key", key>>}

\* opts.headers: Content-Type, and X-API-Key if (this.apiKey)
Headers(key) ==
    {<<"Content-Type", "application/json">>}
        \cup (IF Truthy(key) THEN {<<"X-API-Key", key>>} ELSE {})

RequestInit ==
    /\ pc = "request"
    /\ apiKey \in {Null, "", "aak_1", "aak_2"}
    /\ env = EnvOf(Null)
    /\ configFile = NoFile
    /\ config = EmptyObject
    /\ http = NoHttp
    /\ NoLive

\* what a call of request leaves alone
RequestFrame ==
    UNCHANGED <<args, config, sent, arrived, writes, env, configFile, apiKey, interval, windowSec, listCalls,
                project, serverProjects, projectNames, settled, inflight,
                tick, frame, frameTick, header, sleepMs, timers, cursorHidden, handlers,
                signal, exitCode, errorMsg>>

\* request(method, path, body) up to `await fetch(...)`
Request(method, withBody) ==
    /\ pc = "request"
    /\ http' = [NoHttp EXCEPT !.method = method, !.headers = Headers(apiKey),
                              !.hasBody = withBody]
    /\ pc' = "fetch"
    /\ RequestFrame

\* fetch rejects (no connection): request rejects with the same error
FetchRejects ==
    /\ pc = "fetch"
    /\ http' = [http EXCEPT !.message = "fetch failed"]
    /\ pc' = "threw"
    /\ RequestFrame

\* fetch resolves with a response: `await res.json()`, then the test of res.ok
FetchResolves(status, body) ==
    /\ pc = "fetch"
    /\ IF body.kind = "text"
       THEN /\ http' = [http EXCEPT !.status = status, !.body = body,
                                    !.message = "SyntaxError: not valid JSON"]
            /\ pc' = "threw"
       ELSE IF ~Ok(status)
       THEN IF body.kind = "null"
            THEN /\ http' = [http EXCEPT !.status = status, !.body = body,
                                         !.message = "TypeError: cannot read properties of null"]
                 /\ pc' = "threw"
            ELSE /\ http' = [http EXCEPT !.status = status, !.body = body,
                                         !.message = Or(body.error, "HTTP " \o Format(status))]
                 /\ pc' = "threw"
       ELSE /\ http' = [http EXCEPT !.status = status, !.body = body, !.data = body]
            /\ pc' = "returned"
    /\ RequestFrame

RequestNext ==
    \/ \E method \in Methods, withBody \in BOOLEAN : Request(method, withBody)
    \/ FetchRejects
    \/ \E status \in Statuses, body \in Bodies : FetchResolves(status, body)

SpecRequest == RequestInit /\ [][RequestNext]_vars

----------------------------------------------------------------------------
(* lib/config: the API key from the environment and the configuration file *)

Environments ==
    {[AGENT_ANALYTICS_KEY |-> k, AGENT_ANALYTICS_API_KEY |-> a, AGENT_ANALYTICS_URL |-> Null] :
        k \in {Null, "", "aak_key"}, a \in {Null, "aak_from_env"}}

ConfigFiles ==
    {NoFile} \cup {[readable |-> TRUE, content |-> k @@ u] :
                      k \in {EmptyObject, [api_key |-> ""], [api_key |-> "aak_from_config"]},
                      u \in {EmptyObject, [base_url |-> "http://localhost:8787"]}}

ConfigInit ==
    /\ pc = "config"
    /\ apiKey = Null
    /\ env \in Environments
    /\ configFile \in ConfigFiles
    /\ config = EmptyObject
    /\ http = NoHttp
    /\ NoLive

\* what the functions of lib/config leave alone
ConfigFrame ==
    UNCHANGED <<args, sent, arrived, writes, env, http, interval, windowSec, listCalls,
                project, serverProjects, projectNames, settled, inflight,
                tick, frame, frameTick, header, sleepMs, timers, cursorHidden, handlers,
                signal, exitCode, errorMsg>>

\* a call of getApiKey(); apiKey holds what it returned
GetApiKey ==
    /\ pc = "config"
    /\ apiKey' = getApiKey(env, configFile)
    /\ pc' = "key"
    /\ UNCHANGED <<configFile, config>>
    /\ ConfigFrame

\* a call of setApiKey(key)
SetApiKey(key) ==
    /\ pc \in {"config", "key"}
    /\ configFile' = setApiKey(configFile, key)
    /\ config' = Set(getConfig(configFile), "api_key", key)
    /\ pc' = "config"
    /\ UNCHANGED apiKey
    /\ ConfigFrame

\* the configuration objects cmdLogin builds: the stored one with the new key and
\* account.email, account.github_login, either of which the account may lack
LoginConfigs ==
    {Set(Set(base, "email", e), "github_login", g) :
        base \in {[api_key |-> "aak_new"],
                  [api_key |-> "aak_new", base_url |-> "http://localhost:8787"]},
        e \in {"dev@example.com", Undefined},
        g \in {"octocat", Null, Undefined}}

\* a call of saveConfig(config)
SaveConfig(obj) ==
    /\ pc \in {"config", "key", "loaded"}
    /\ config' = obj
    /\ configFile' = saveConfig(obj)
    /\ pc' = "saved"
    /\ UNCHANGED apiKey
    /\ ConfigFrame

\* a call of getConfig() after a save; config holds what it returned
GetConfig ==
    /\ pc = "saved"
    /\ config' = getConfig(configFile)
    /\ pc' = "loaded"
    /\ UNCHANGED <<configFile, apiKey>>
    /\ ConfigFrame

ConfigNext ==
    \/ GetApiKey
    \/ \E key \in {"aak_from_config", "aak_new"} : SetApiKey(key)
    \/ \E obj \in LoginConfigs : SaveConfig(obj)
    \/ GetConfig

SpecConfig == ConfigInit /\ [][ConfigNext]_vars

----------------------------------------------------------------------------
(* The live view of one project under the command lines a user may type *)

ArgLines ==
    {<<"live">>,
     <<"live", "A">>,
     <<"live", "--interval", "5", "--window", "60">>,
     <<"live", "A", "--interval", "2">>,
     <<"live", "--window", "30", "--interval", "10">>,
     <<"live", "--interval">>,
     <<"live", "--interval", "">>,
     <<"live", "--interval", "0">>,
     <<"live", "--interval", "2.5">>,
     <<"live", "--interval", "abc">>,
     <<"live", "--interval", "--window", "30">>,
     <<"live", "--window", "10s">>,
     <<"live", "--window", "-3">>}

ArgsInit == \E argv \in ArgLines : Start(argv, EnvOf("aak"), NoFile, <<"A">>)

SpecArgs == ArgsInit /\ [][Next]_vars

----------------------------------------------------------------------------
(* The live view of an account whose projects change while it runs: projects  *)
(* are created, deleted and renamed on the server, and names are not unique   *)

ServerLists == {<<"A">>, <<"A", "B">>, <<"B", "A">>, <<"A", "B", "A">>}

ServerInit ==
    \E argv \in {<<"live">>, <<"live", "A">>}, projects \in ServerLists :
        Start(argv, EnvOf("aak"), NoFile, projects)

\* the account's project list changes on the server
ServerChanges ==
    /\ pc # "exited"
    /\ serverProjects' \in ServerLists \ {serverProjects}
    /\ UNCHANGED <<args, config, sent, arrived, writes, env, configFile, http, apiKey, interval, windowSec, listCalls,
                   project, projectNames, settled, inflight, pc,
                   tick, frame, frameTick, header, sleepMs, timers, cursorHidden, handlers,
                   signal, exitCode, errorMsg>>

ServerNext == Next \/ ServerChanges

SpecServer == ServerInit /\ [][ServerNext]_vars

----------------------------------------------------------------------------
(* One run of the CLI: main's switch on the command, login, the commands that *)
(* need the API (behind withApi) and the live command                         *)

\* args[0]: the command, undefined when there is none
Command(argv) == IF Len(argv) >= 1 THEN argv[1] ELSE Null

\* the cases of the switch that show the help
HelpCommands == {"help", "--help", "-h"}

\* the commands wrapped in withApi whose function makes its request at once, those
\* that first want args[1] (a project name or id), and the two together
NeedsProject ==
    {"stats", "events", "properties", "properties-received", "sessions", "project",
     "insights", "pages", "sessions-dist", "heatmap", "retention", "delete"}
ApiCommands == {"projects", "list", "revoke-key", "whoami"} \cup NeedsProject

\* the commands whose functions check more arguments than args[1]; left out
NotModelled == {"create", "init", "query", "update", "breakdown", "funnel", "experiments"}

\* the case labels of the switch
KnownCommands ==
    HelpCommands \cup ApiCommands \cup NotModelled \cup {"login", "live", "delete-account"}

\* the method of the request a command makes
MethodOf(cmd) ==
    IF cmd = "revoke-key" THEN "POST" ELSE IF cmd = "delete" THEN "DELETE" ELSE "GET"

MainLines ==
    {<<>>, <<"help">>, <<"-h">>, <<"nonexistent">>, <<"login">>, <<"login", "--token">>,
     <<"login", "--token", "aak_new">>, <<"projects">>, <<"events">>, <<"events", "A">>,
     <<"revoke-key">>, <<"whoami">>, <<"delete-account">>, <<"live">>}

\* a JSON object as the body of a response
Reply(fields) == [kind |-> "object", error |-> Get(fields, "error"), fields |-> fields]

MainBodies ==
    {JsonNull, NotJson} \cup
    {Reply(f) : f \in {EmptyObject,
                       [error |-> "Invalid API key"],
                       [email |-> "dev@example.com"],
                       [email |-> "dev@example.com", github_login |-> "octocat"],
                       [api_key |-> "aak_issued"]}}

StoredFiles ==
    {NoFile,
     [readable |-> TRUE, content |-> [api_key |-> "aak_stored"]],
     [readable |-> TRUE, content |-> [api_key |-> "aak_stored", email |-> "old@example.com"]]}

MainInit ==
    \E argv \in MainLines, k \in {Null, "", "aak_env"}, file \in StoredFiles :
        /\ pc = "start"
        /\ args = argv
        /\ env = EnvOf(k)
        /\ configFile = file
        /\ config = EmptyObject
        /\ http = NoHttp
        /\ apiKey = Null
        /\ interval = NaN
        /\ windowSec = NaN
        /\ header = NoHeader
        /\ sleepMs = 0
        /\ listCalls = 0
        /\ sent = <<>>
        /\ arrived = <<>>
        /\ writes = <<>>
        /\ project = LiveProject(argv)
        /\ serverProjects = <<"A", "B">>
        /\ projectNames = <<>>
        /\ settled = <<>>
        /\ inflight = {}
        /\ tick = 0
        /\ frame = NoFrame
        /\ frameTick = 0
        /\ timers = 0
        /\ cursorHidden = FALSE
        /\ handlers = FALSE
        /\ signal = ""
        /\ exitCode = Undef
        /\ errorMsg = ""

\* what main, login and the withApi commands leave alone
MainFrame ==
    UNCHANGED <<args, env, sent, arrived, writes, interval, windowSec, listCalls,
                project, serverProjects, projectNames, settled, inflight,
                tick, frame, frameTick, header, sleepMs, timers, cursorHidden, handlers, signal>>

\* the command returns and the process ends with status 0
Done ==
    /\ pc' = "exited"
    /\ exitCode' = 0
    /\ UNCHANGED errorMsg

\* the switch of main: help and delete-account print and return, login without
\* a token prints its instructions, login with one builds a client with the token
\* and looks the account up, the other commands go to their function, and
\* anything else is an error
Dispatch ==
    /\ pc = "start"
    /\ Command(args) \notin NotModelled
    /\ LET cmd == Command(args)
           token == getArg(args, "--token")
       IN IF cmd = Null \/ cmd \in HelpCommands \/ cmd = "delete-account"
          THEN Done /\ UNCHANGED <<apiKey, configFile, config, http>> /\ MainFrame
          ELSE IF cmd = "login"
          THEN IF ~Truthy(token)
               THEN Done /\ UNCHANGED <<apiKey, configFile, config, http>> /\ MainFrame
               ELSE /\ apiKey' = token
                    /\ pc' = "request"
                    /\ UNCHANGED <<exitCode, errorMsg, configFile, config, http>>
                    /\ MainFrame
          ELSE IF cmd = "live" \/ cmd \in ApiCommands
          THEN /\ pc' = IF cmd = "live" THEN "main" ELSE "api"
               /\ UNCHANGED <<exitCode, errorMsg, apiKey, configFile, config, http>>
               /\ MainFrame
          ELSE error("Unknown command: " \o cmd)

\* a wrapped command that calls its function without requireKey
withApiUnchecked ==
    /\ pc = "api"
    /\ IF Command(args) \in NeedsProject /\ ~(Len(args) >= 2 /\ Truthy(args[2]))
       THEN error("Usage")
       ELSE /\ apiKey' = getApiKey(env, configFile)
            /\ pc' = "request"
            /\ UNCHANGED <<exitCode, errorMsg, configFile, config, http>>
            /\ MainFrame

\* withApi(fn): requireKey, then fn up to its first request; fn checks its
\* arguments first
withApi ==
    /\ pc = "api"
    /\ IF ~Truthy(getApiKey(env, configFile))
       THEN error("Not logged in")
       ELSE IF Command(args) \in NeedsProject /\ ~(Len(args) >= 2 /\ Truthy(args[2]))
       THEN error("Usage")
       ELSE /\ apiKey' = getApiKey(env, configFile)
            /\ pc' = "request"
            /\ UNCHANGED <<exitCode, errorMsg, configFile, config, http>>
            /\ MainFrame

\* the request of the command: api.getAccount(), api.listProjects(),
\* api.getEvents(...), api.revokeKey()
CallApi == Request(MethodOf(Command(args)), FALSE)

\* cmdLogin once api.getAccount() has returned: setApiKey(token), then the
\* account's email and github_login are added and the configuration is saved;
\* reading them from an account that is null throws into the catch
LoginReturns ==
    /\ pc = "returned"
    /\ Command(args) = "login"
    /\ LET stored == setApiKey(configFile, apiKey)
       IN IF http.data.kind = "null"
          THEN /\ configFile' = stored
               /\ config' = getConfig(stored)
               /\ pc' = "exited"
               /\ exitCode' = 1
               /\ errorMsg' = "Invalid API key: TypeError: cannot read properties of null"
          ELSE LET account == http.data.fields
                   obj == Set(Set(getConfig(stored), "email", Get(account, "email")),
                              "github_login", Get(account, "github_login"))
               IN /\ configFile' = saveConfig(obj)
                  /\ config' = obj
                  /\ Done
    /\ UNCHANGED <<apiKey, http>>
    /\ MainFrame

\* cmdLogin's catch: api.getAccount() threw
LoginThrows ==
    /\ pc = "threw"
    /\ Command(args) = "login"
    /\ error("Invalid API key: " \o http.message)

\* a wrapped command once its request has returned: it reads the fields of the
\* data (a TypeError when the data is null) and prints; revoke-key stores
\* data.api_key first
CommandReturns ==
    /\ pc = "returned"
    /\ Command(args) \in ApiCommands
    /\ IF http.data.kind = "null"
       THEN error("TypeError: cannot read properties of null")
       ELSE /\ IF Command(args) = "revoke-key"
               THEN /\ configFile' = setApiKey(configFile, Get(http.data.fields, "api_key"))
                    /\ config' = Set(getConfig(configFile), "api_key",
                                     Get(http.data.fields, "api_key"))
               ELSE UNCHANGED <<configFile, config>>
            /\ Done
            /\ UNCHANGED <<apiKey, http>>
            /\ MainFrame

\* withApi's catch: the request threw
CommandThrows ==
    /\ pc = "threw"
    /\ Command(args) \in ApiCommands
    /\ error(http.message)

MainNext ==
    \/ Dispatch
    \/ withApi
    \/ CallApi
    \/ FetchRejects
    \/ \E status \in {200, 401}, body \in MainBodies : FetchResolves(status, body)
    \/ LoginReturns
    \/ LoginThrows
    \/ CommandReturns
    \/ CommandThrows
    \/ Next

SpecMain == MainInit /\ [][MainNext]_vars

----------------------------------------------------------------------------
(* The live command and the signals it registers no handler for: the hangup *)
(* of a closed terminal and the quit key                                    *)

UnhandledSignals == {"SIGHUP", "SIGQUIT"}

SignalsInit ==
    \E argv \in {<<"live">>, <<"live", "A">>}, projects \in {<<"A">>, <<"A", "B">>} :
        Start(argv, EnvOf("aak"), NoFile, projects)

\* a signal cmdLive has no process.on for: the default disposition ends the
\* process, no JavaScript runs
Terminated(sig) ==
    /\ pc \in {"listing", "fetching", "sleeping"}
    /\ signal' = sig
    /\ exitCode' = KilledBy(sig)
    /\ pc' = "exited"
    /\ UNCHANGED <<args, config, sent, arrived, writes, env, configFile, http, apiKey, interval, windowSec, listCalls,
                   project, serverProjects, projectNames, settled, inflight,
                   tick, frame, frameTick, header, sleepMs, timers, cursorHidden, handlers, errorMsg>>

SignalsNext == Next \/ \E sig \in UnhandledSignals : Terminated(sig)

SpecSignals == SignalsInit /\ [][SignalsNext]_vars

----------------------------------------------------------------------------
(* The aggregation and rendering of one iteration, on its own: the snapshots *)
(* of up to MaxAggProjects projects, each a payload or the fallback          *)

AggCatalog == <<Busy, Zero, Sparse, Long, Ties, Rising>>

\* the promise of project `name`, settled: choice 0 is a failed fetch
Resolved(name, choice) ==
    IF choice = 0
    THEN [done |-> TRUE, failed |-> TRUE, value |-> Fallback(name)]
    ELSE [done |-> TRUE, failed |-> FALSE, value |-> WithName(name, AggCatalog[choice])]

AggInit ==
    \E n \in 1..MaxAggProjects :
        \E choice \in [1..n -> 0..Len(AggCatalog)] :
            /\ pc = "settled"
            /\ args = <<"live">>
            /\ env = EnvOf("aak")
            /\ configFile = NoFile
    /\ config = EmptyObject
            /\ http = NoHttp
            /\ apiKey = "aak"
            /\ interval = 5
            /\ windowSec = 60
            /\ header = NoHeader
            /\ sleepMs = 0
            /\ listCalls = 1
            /\ sent = [i \in 1..n |-> [name |-> AllNames[i], window |-> 60]]
            /\ arrived = [i \in 1..n |-> i]
            /\ writes = <<>>
            /\ project = Null
            /\ serverProjects = SubSeq(AllNames, 1, n)
            /\ projectNames = SubSeq(AllNames, 1, n)
            /\ settled = [i \in 1..n |-> Resolved(AllNames[i], choice[i])]
            /\ inflight = {}
            /\ tick = 1
            /\ frame = NoFrame
            /\ frameTick = 0
            /\ timers = 0
            /\ cursorHidden = TRUE
            /\ handlers = TRUE
            /\ signal = ""
            /\ exitCode = Undef
            /\ errorMsg = ""

\* the body of the loop between `await Promise.all` and the sleep
AggregateAndRender ==
    /\ pc = "settled"
    /\ frame' = RenderFrame(Snapshots(settled))
    /\ frameTick' = tick
    /\ header' = HeaderText(interval, windowSec)
    /\ writes' = <<ClearAndHome, "lines">>
    /\ pc' = "rendered"
    /\ UNCHANGED <<args, config, sent, arrived, env, configFile, http, apiKey, interval, windowSec, listCalls,
                   project, serverProjects, projectNames, settled, inflight,
                   tick, sleepMs, timers, cursorHidden, handlers, signal, exitCode, errorMsg>>

AggNext == AggregateAndRender

SpecAgg == AggInit /\ [][AggNext]_vars

----------------------------------------------------------------------------
(* Properties of the live loop *)

\* the target projects, by position
Targets == 1..Len(projectNames)

\* the frame on screen was built from the promises now in `settled`
FrameOfThisTick ==
    /\ frameTick > 0
    /\ Len(settled) = Len(projectNames)
    /\ \A i \in DOMAIN settled : settled[i].done

\* what a count of a payload is worth in a sum: an absent count adds nothing
Count(x) == IF x = -1 THEN 0 ELSE x

RECURSIVE SumUpTo(_, _)
SumUpTo(f, n) == IF n = 0 THEN 0 ELSE f[n] + SumUpTo(f, n - 1)

\* C1: in every frame each aggregated total (visitors, sessions, events per
\* minute) is the arithmetic sum of that count over the snapshots of all target
\* projects of the tick, the all-zero fallbacks of failed fetches included.
TotalsAreSums ==
    FrameOfThisTick =>
        /\ frame.totalVisitors =
              SumUpTo([i \in Targets |-> Count(settled[i].value.active_visitors)], Len(projectNames))
        /\ frame.totalSessions =
              SumUpTo([i \in Targets |-> Count(settled[i].value.active_sessions)], Len(projectNames))
        /\ frame.totalEpm =
              SumUpTo([i \in Targets |-> Count(settled[i].value.events_per_minute)], Len(projectNames))

\* a frame summing a failed fetch, a payload with an absent count and a busy one
TotalsAreSumsWitness ==
    /\ FrameOfThisTick
    /\ pc = "sleeping"
    /\ Len(projectNames) = 3
    /\ \E i \in Targets : settled[i].failed
    /\ \E i \in Targets : ~settled[i].failed /\ settled[i].value.active_visitors = -1
    /\ \E i \in Targets : settled[i].value.active_visitors > 0
    /\ frame.totalVisitors = 3
    /\ frame.totalSessions = 3
    /\ frame.totalEpm = 10

\* C2: every frame has exactly one row per target project, in order, and the
\* row of a project whose fetch threw is there with zero activity: all counts
\* zero, no pages, no events.
FailedProjectHasRow ==
    FrameOfThisTick =>
        /\ Len(frame.rows) = Len(projectNames)
        /\ frame.projectCount = Len(projectNames)
        /\ \A i \in Targets :
              /\ frame.rows[i].name = projectNames[i]
              /\ settled[i].failed =>
                    /\ ~frame.rows[i].active
                    /\ settled[i].value.active_visitors = 0
                    /\ settled[i].value.active_sessions = 0
                    /\ settled[i].value.events_per_minute = 0
                    /\ settled[i].value.top_pages = <<>>
                    /\ settled[i].value.recent_events = <<>>
                    /\ \A k \in DOMAIN frame.topPages : frame.topPages[k].project # projectNames[i]
                    /\ \A k \in DOMAIN frame.recentEvents :
                          frame.recentEvents[k].project # projectNames[i]

\* a frame of a tick in which one fetch threw and another returned activity
FailedProjectHasRowWitness ==
    /\ FrameOfThisTick
    /\ pc = "sleeping"
    /\ \E i, j \in Targets :
          /\ settled[i].failed
          /\ ~frame.rows[i].active
          /\ ~settled[j].failed
          /\ frame.rows[j].active

\* C3: a tick in which fetches fail is not aborted and does not stall: while
\* some fetch is outstanding the loop waits, and once all have settled the
\* frame of that tick is on screen and the sleep timer that starts the next
\* tick is pending; nothing but a signal ends the process.
FailedTickCompletes ==
    (\E i \in DOMAIN settled : settled[i].failed) =>
        \/ pc = "fetching" /\ (\E i \in DOMAIN settled : ~settled[i].done)
        \/ /\ pc = "sleeping"
           /\ frameTick = tick
           /\ Len(frame.rows) = Len(projectNames)
           /\ timers = 1
           /\ ENABLED TimerFires
        \/ pc = "exited" /\ signal # "" /\ exitCode = 0

\* the frame of a tick in which every fetch failed, the sleep pending
FailedTickCompletesWitness ==
    /\ pc = "sleeping"
    /\ Len(projectNames) >= 2
    /\ \A i \in DOMAIN settled : settled[i].failed
    /\ frameTick = tick
    /\ tick >= 2

InterruptRestoresCursor ==
    /\ [][(signal = "" /\ signal' # "" /\ handlers) =>
             /\ pc \in {"fetching", "sleeping"}
             /\ ~cursorHidden'
             /\ exitCode' = 0
             /\ pc' = "exited"
             /\ inflight' = inflight]_vars
    /\ [](handlers /\ exitCode = -1 =>
             /\ cursorHidden
             /\ ENABLED cleanup("SIGINT")
             /\ ENABLED cleanup("SIGTERM"))

\* the process ended by SIGTERM with requests still in flight
InterruptRestoresCursorWitness ==
    /\ pc = "exited"
    /\ signal = "SIGTERM"
    /\ handlers
    /\ inflight # {}
    /\ (\E i \in DOMAIN settled : settled[i].done)
    /\ ~cursorHidden
    /\ exitCode = 0

\* C6: a frame is drawn only when every fetch of the tick has settled: the
\* step that draws a frame (and starts the sleep) leaves no request in flight
\* and no promise pending, and the frame has a row for each of them.
RenderAfterAllSettled ==
    [][(timers' > timers \/ frame' # frame \/ frameTick' # frameTick) =>
          /\ inflight' = {}
          /\ \A i \in DOMAIN settled' : settled'[i].done
          /\ Len(frame'.rows) = Len(settled')
          /\ pc' = "sleeping"]_vars

\* a tick with one fetch settled and another in flight, its frame not drawn
RenderAfterAllSettledWitness ==
    /\ pc = "fetching"
    /\ tick = 1
    /\ frameTick = 0
    /\ frame.rows = <<>>
    /\ \E i \in DOMAIN settled : settled[i].done
    /\ \E r \in inflight : ~settled[r.idx].done

\* C7: ticks do not overlap: every request in flight belongs to the current
\* tick, a project has at most one request in flight, none is in flight during
\* the sleep, and at most one sleep timer is pending, and only during the sleep
\* (no tick is queued).
TicksAreSequential ==
    /\ \A r \in inflight : r.tick = tick /\ ~settled[r.idx].done
    /\ \A r1, r2 \in inflight : r1.idx = r2.idx => r1 = r2
    /\ pc = "sleeping" => inflight = {} /\ timers = 1
    /\ pc = "fetching" => timers = 0
    /\ timers <= 1

\* the second tick's fan-out, all of its requests in flight after a sleep
TicksAreSequentialWitness ==
    /\ pc = "fetching"
    /\ tick = 2
    /\ frameTick = 1
    /\ Cardinality(inflight) = Len(projectNames)
    /\ Len(projectNames) >= 2

\* the account has no project, or the filter names none of its projects
NothingToShow ==
    \/ serverProjects = <<>>
    \/ project \notin {"", "(null)"}
          /\ \A i \in DOMAIN serverProjects : serverProjects[i] # project

\* C8: with an empty project list, or a filter that matches no project, the
\* command never enters the loop: no live request is sent, no frame is drawn,
\* the cursor is not touched, and when the list arrives the process exits with
\* status 1.
FailsFastWithoutTargets ==
    /\ [](NothingToShow =>
             /\ pc \in {"main", "listing", "exited"}
             /\ tick = 0
             /\ inflight = {}
             /\ frameTick = 0
             /\ ~cursorHidden
             /\ exitCode # 0)
    /\ [][(NothingToShow /\ pc = "listing" /\ signal' = "") =>
             pc' = "exited" /\ exitCode' = 1]_vars

\* the exit on a filter that names no project of a non-empty list
FailsFastWithoutTargetsWitness ==
    /\ pc = "exited"
    /\ exitCode = 1
    /\ errorMsg = "Project not found"
    /\ project = "Z"
    /\ Len(serverProjects) >= 2
    /\ tick = 0

----------------------------------------------------------------------------
(* Properties of the aggregated frame *)

\* the position of a project in the project list
ProjectIndex(name) == CHOOSE i \in DOMAIN projectNames : projectNames[i] = name

\* C9: a frame shows at most 8 merged top pages and at most 10 merged recent
\* events, however many the projects contribute together.
FrameListsCapped ==
    /\ Len(frame.topPages) <= 8
    /\ Len(frame.recentEvents) <= 10

\* a frame of four projects that contribute 12 pages and 12 events
FrameListsCappedWitness ==
    /\ pc = "rendered"
    /\ Len(projectNames) = 4
    /\ \A i \in Targets : Len(settled[i].value.top_pages) >= 3
    /\ \A i \in Targets : Len(settled[i].value.recent_events) >= 3
    /\ Len(frame.topPages) = 8
    /\ Len(frame.recentEvents) = 10

\* the sort key of an event: an absent timestamp sorts as 0
TimestampKey(e) == IF e.timestamp = -1 THEN 0 ELSE e.timestamp

\* C10: the recent events of a frame are in descending order of timestamp, and
\* of two events with the same timestamp the one of the project that comes
\* first in the project list is shown first.
RecentSortedStable ==
    \A i, j \in DOMAIN frame.recentEvents :
        i < j =>
            /\ TimestampKey(frame.recentEvents[i]) >= TimestampKey(frame.recentEvents[j])
            /\ TimestampKey(frame.recentEvents[i]) = TimestampKey(frame.recentEvents[j]) =>
                  ProjectIndex(frame.recentEvents[i].project)
                      <= ProjectIndex(frame.recentEvents[j].project)

\* a frame in which events of two projects tie, and a later project's newer
\* event comes before an earlier project's older one
RecentSortedStableWitness ==
    /\ pc = "rendered"
    /\ \E i, j \in DOMAIN frame.recentEvents :
          /\ j = i + 1
          /\ frame.recentEvents[i].timestamp = frame.recentEvents[j].timestamp
          /\ frame.recentEvents[i].project = "A"
          /\ frame.recentEvents[j].project = "B"
    /\ \E i, j \in DOMAIN frame.recentEvents :
          /\ i < j
          /\ frame.recentEvents[i].project = "B"
          /\ frame.recentEvents[j].project = "A"
          /\ frame.recentEvents[i].timestamp > frame.recentEvents[j].timestamp


\* the sort key of a page: an absent visitor count sorts as 0
VisitorsKey(p) == IF p.visitors = -1 THEN 0 ELSE p.visitors

\* the pages of a frame that carry the name of the i-th project
PagesOf(i) == {k \in DOMAIN frame.topPages : frame.topPages[k].project = projectNames[i]}

\* C11: the top pages of a frame hold at most 3 pages per project, each is a
\* page of the snapshot of the project whose name it carries, they are in
\* descending order of visitors, and of two pages with the same visitors the
\* one of the project that comes first in the project list is shown first.
TopPagesMerged ==
    /\ \A i \in Targets : Cardinality(PagesOf(i)) <= 3
    /\ \A k \in DOMAIN frame.topPages :
          \E i \in Targets :
              /\ frame.topPages[k].project = projectNames[i]
              /\ \E m \in DOMAIN settled[i].value.top_pages :
                    /\ settled[i].value.top_pages[m].path = frame.topPages[k].path
                    /\ settled[i].value.top_pages[m].visitors = frame.topPages[k].visitors
    /\ \A i, j \in DOMAIN frame.topPages :
          i < j =>
              /\ VisitorsKey(frame.topPages[i]) >= VisitorsKey(frame.topPages[j])
              /\ VisitorsKey(frame.topPages[i]) = VisitorsKey(frame.topPages[j]) =>
                    ProjectIndex(frame.topPages[i].project)
                        <= ProjectIndex(frame.topPages[j].project)

\* a frame with pages of two projects that tie, one of them a project whose
\* snapshot lists four pages and shows three
TopPagesMergedWitness ==
    /\ pc = "rendered"
    /\ \E i \in Targets :
          /\ Len(settled[i].value.top_pages) = 4
          /\ Cardinality(PagesOf(i)) = 3
    /\ \E i, j \in DOMAIN frame.topPages :
          /\ j = i + 1
          /\ frame.topPages[i].visitors = frame.topPages[j].visitors
          /\ frame.topPages[i].project = "A"
          /\ frame.topPages[j].project = "B"
    /\ \E i, j \in DOMAIN frame.topPages :
          /\ i < j
          /\ frame.topPages[i].project = "B"
          /\ frame.topPages[j].project = "A"
          /\ frame.topPages[i].visitors > frame.topPages[j].visitors

----------------------------------------------------------------------------
(* Properties of the project rows *)

\* C12: in every frame a project's row is marked active exactly when its
\* snapshot of the tick has a visitor count above zero or an events-per-minute
\* above zero; the row of a failed fetch is the idle row of a project that
\* reported zero activity: a name and nothing else, no sign of the error.
RowActiveIffActivity ==
    FrameOfThisTick =>
        \A i \in Targets :
            /\ frame.rows[i].active <=>
                  \/ settled[i].value.active_visitors > 0
                  \/ settled[i].value.events_per_minute > 0
            /\ frame.rows[i].active =>
                  /\ frame.rows[i].visitors = settled[i].value.active_visitors
                  /\ frame.rows[i].sessions = settled[i].value.active_sessions
                  /\ frame.rows[i].epm = settled[i].value.events_per_minute
            /\ settled[i].failed =>
                  frame.rows[i] = [name |-> projectNames[i], active |-> FALSE,
                                   visitors |-> -1, sessions |-> -1, epm |-> -1]

\* a frame with a row active by its visitors alone, the idle row of a project
\* that reported zero, and the same idle row for a project whose fetch failed
RowActiveIffActivityWitness ==
    /\ FrameOfThisTick
    /\ pc = "rendered"
    /\ \E i, j, k \in Targets :
          /\ frame.rows[i].active
          /\ settled[i].value.active_visitors > 0
          /\ settled[i].value.events_per_minute <= 0
          /\ ~settled[j].failed
          /\ settled[j].value.active_visitors = 0
          /\ settled[j].value.events_per_minute = 0
          /\ ~frame.rows[j].active
          /\ settled[k].failed
          /\ ~frame.rows[k].active
          /\ frame.rows[k].visitors = frame.rows[j].visitors

----------------------------------------------------------------------------
(* Properties of the loop as a whole *)

\* C13: without an interrupt, and with every fetch settling, the loop never
\* ends: every sleep is followed by another fan-out and every fan-out by
\* another frame and sleep, and only a signal takes the process out of the loop.
LoopNeverEnds ==
    /\ [](pc = "sleeping" => <>(pc = "fetching" \/ signal # ""))
    /\ [](pc = "fetching" => <>(pc = "sleeping" \/ signal # ""))
    /\ [][(pc \in {"fetching", "sleeping"} /\ pc' \notin {"fetching", "sleeping"}) =>
             signal' # ""]_vars

\* the loop asleep after its second frame, no signal received
LoopNeverEndsWitness ==
    /\ pc = "sleeping"
    /\ tick >= 2
    /\ frameTick = tick
    /\ Len(projectNames) = 2
    /\ signal = ""

----------------------------------------------------------------------------
(* Properties of the target projects *)

\* C14: the project list is fetched once, before the first tick, and never
\* again: from the first tick on the target projects do not change, whatever
\* happens to the list on the server, and every tick polls and renders exactly
\* them, in their order.
ProjectListFetchedOnce ==
    /\ [](listCalls <= 1)
    /\ [](tick > 0 => listCalls = 1)
    /\ [][tick > 0 => projectNames' = projectNames]_vars
    /\ [][tick' # tick =>
             /\ Cardinality(inflight') = Len(projectNames')
             /\ \A r \in inflight' : r.idx \in DOMAIN projectNames']_vars
    /\ [](tick > 0 =>
             /\ Len(settled) = Len(projectNames)
             /\ \A i \in DOMAIN settled : settled[i].value.name = projectNames[i])
    /\ [](frameTick > 0 =>
             /\ Len(frame.rows) = Len(projectNames)
             /\ \A i \in DOMAIN frame.rows : frame.rows[i].name = projectNames[i])

\* the second frame of a run, of the two projects the account had at startup,
\* after one of them has gone from the server
ProjectListFetchedOnceWitness ==
    /\ pc = "sleeping"
    /\ tick = 2
    /\ frameTick = 2
    /\ projectNames = <<"A", "B">>
    /\ serverProjects = <<"A">>
    /\ Len(frame.rows) = 2

\* C15: with a project-name filter the loop polls and renders one project
\* only, the one that has the name, for every project list the server returns.
FilterNarrowsToOne ==
    (tick > 0 /\ project \notin {"", "(null)"}) =>
        /\ Len(projectNames) = 1
        /\ projectNames[1] = project
        /\ Len(settled) = 1
        /\ Cardinality(inflight) <= 1
        /\ frameTick > 0 => Len(frame.rows) = 1

----------------------------------------------------------------------------
(* Properties of the frame across ticks *)

\* the number of entries a project's list of n entries adds to a merged list
Share(n) == IF n < 3 THEN n ELSE 3

\* C16: the frame of a tick is built from the snapshots of that tick and from
\* nothing else: its totals are the sums over them, each row shows the counts of
\* its project's snapshot or nothing, and the top pages and recent events are
\* entries of them and as many as they contribute (up to the caps), so that
\* nothing an earlier tick showed is left in it.
FrameFromThisTickOnly ==
    FrameOfThisTick =>
        /\ frame.totalVisitors =
              SumUpTo([i \in Targets |-> Count(settled[i].value.active_visitors)], Len(projectNames))
        /\ frame.totalSessions =
              SumUpTo([i \in Targets |-> Count(settled[i].value.active_sessions)], Len(projectNames))
        /\ frame.totalEpm =
              SumUpTo([i \in Targets |-> Count(settled[i].value.events_per_minute)], Len(projectNames))
        /\ Len(frame.rows) = Len(projectNames)
        /\ \A i \in Targets :
              \/ /\ frame.rows[i].active
                 /\ frame.rows[i].visitors = settled[i].value.active_visitors
                 /\ frame.rows[i].sessions = settled[i].value.active_sessions
                 /\ frame.rows[i].epm = settled[i].value.events_per_minute
              \/ /\ ~frame.rows[i].active
                 /\ frame.rows[i].visitors = -1
                 /\ frame.rows[i].sessions = -1
                 /\ frame.rows[i].epm = -1
        /\ \A k \in DOMAIN frame.topPages :
              \E i \in Targets, m \in 1..3 :
                  /\ m <= Len(settled[i].value.top_pages)
                  /\ frame.topPages[k].project = projectNames[i]
                  /\ frame.topPages[k].path = settled[i].value.top_pages[m].path
                  /\ frame.topPages[k].visitors = settled[i].value.top_pages[m].visitors
        /\ \A k \in DOMAIN frame.recentEvents :
              \E i \in Targets, m \in 1..3 :
                  /\ m <= Len(settled[i].value.recent_events)
                  /\ frame.recentEvents[k].project = projectNames[i]
                  /\ frame.recentEvents[k].event = settled[i].value.recent_events[m].event
                  /\ frame.recentEvents[k].timestamp = settled[i].value.recent_events[m].timestamp
        /\ LET pages == SumUpTo([i \in Targets |-> Share(Len(settled[i].value.top_pages))],
                               Len(projectNames))
               events == SumUpTo([i \in Targets |-> Share(Len(settled[i].value.recent_events))],
                                Len(projectNames))
           IN /\ Len(frame.topPages) = IF pages < 8 THEN pages ELSE 8
              /\ Len(frame.recentEvents) = IF events < 10 THEN events ELSE 10

\* the empty second frame of a run: every fetch of the second tick failed
FrameFromThisTickOnlyWitness ==
    /\ pc = "sleeping"
    /\ tick = 2
    /\ frameTick = 2
    /\ Len(projectNames) >= 2
    /\ \A i \in DOMAIN settled : settled[i].failed
    /\ frame.totalVisitors = 0
    /\ frame.totalEpm = 0
    /\ frame.topPages = <<>>
    /\ frame.recentEvents = <<>>

----------------------------------------------------------------------------
(* Properties of the header *)

\* the text passed with a flag on the command line, or the default
Given(flag, default) ==
    IF \E i \in 1..(Len(args) - 1) : args[i] = flag
    THEN LET first == CHOOSE i \in 1..(Len(args) - 1) :
                          args[i] = flag /\ \A j \in 1..(i - 1) : args[j] # flag
         IN IF args[first + 1] = "" THEN default ELSE args[first + 1]
    ELSE default

\* the text is a number written in decimal: digits, with a sign or a point
Numeric(text) ==
    /\ \E i \in 1..Len(text) : SubSeq(text, i, i) \in {"0", "1", "2", "3", "4", "5", "6", "7", "8", "9"}
    /\ \A i \in 1..Len(text) :
          SubSeq(text, i, i) \in {"0", "1", "2", "3", "4", "5", "6", "7", "8", "9", ".", "-"}

\* C17: for numbers on the command line, the header shows the interval and the window exactly as they were
\* passed, 5 and 60 when the flags are omitted, and the numbers shown are the
\* ones used for the sleep (in milliseconds) and for the snapshot requests.
HeaderShowsNumbersAsPassed ==
    (Numeric(Given("--interval", "5")) /\ Numeric(Given("--window", "60"))) =>
        /\ frameTick > 0 =>
              /\ header = Given("--interval", "5") \o "s refresh, "
                              \o Given("--window", "60") \o "s window"
              /\ sleepMs # 0 => Format(sleepMs) = Given("--interval", "5") \o "000"
        /\ \A r \in inflight : Format(r.window) = Given("--window", "60")

----------------------------------------------------------------------------
(* Properties of AgentAnalyticsAPI.request *)

\* C18: request fails for every response with a non-success status, with the
\* server's error message when the response carries one and "HTTP <status>"
\* otherwise, and a response with a success status never raises.
RequestFailsOnHttpError ==
    (pc \in {"returned", "threw"} /\ http.status # 0) =>
        IF http.status \in 200..299
        THEN pc = "returned"
        ELSE /\ pc = "threw"
             /\ http.message =
                   IF http.body.kind = "object" /\ http.body.error \notin {"", "(null)"}
                   THEN http.body.error
                   ELSE "HTTP " \o Format(http.status)

\* C19: the request carries the X-API-Key header, with the client's key, if
\* and only if the client has a key; without a key no such header is sent.
ApiKeyHeaderIffKey ==
    pc \in {"fetch", "returned", "threw"} =>
        /\ <<"Content-Type", "application/json">> \in http.headers
        /\ apiKey \notin {"", "(null)"} =>
              \A h \in http.headers : h[1] = "X-API-Key" <=> h = <<"X-API-Key", apiKey>>
        /\ apiKey \notin {"", "(null)"} => <<"X-API-Key", apiKey>> \in http.headers
        /\ apiKey \in {"", "(null)"} => \A h \in http.headers : h[1] # "X-API-Key"

\* a request of a client without a key, sent with Content-Type alone
ApiKeyHeaderIffKeyWitness ==
    /\ pc = "fetch"
    /\ apiKey = "(null)"
    /\ http.method = "GET"
    /\ http.headers = {<<"Content-Type", "application/json">>}

----------------------------------------------------------------------------
(* Properties of the configuration *)

\* C20: getApiKey returns the value of AGENT_ANALYTICS_API_KEY whenever that is
\* set, otherwise the stored api_key, and null when there is neither.
EnvKeyOverridesStored ==
    pc = "key" =>
        apiKey =
            IF env.AGENT_ANALYTICS_API_KEY \notin {"", "(null)"}
            THEN env.AGENT_ANALYTICS_API_KEY
            ELSE IF /\ configFile.readable
                    /\ "api_key" \in DOMAIN configFile.content
                    /\ configFile.content.api_key \notin {"", "(null)"}
            THEN configFile.content.api_key
            ELSE "(null)"

----------------------------------------------------------------------------
(* Properties of what a project contributes to the merged lists *)

\* the positions of the snapshot's pages that the frame shows for project i
ShownPages(i) ==
    {m \in DOMAIN settled[i].value.top_pages :
        \E k \in DOMAIN frame.topPages :
            /\ frame.topPages[k].project = projectNames[i]
            /\ frame.topPages[k].path = settled[i].value.top_pages[m].path}

\* the positions of the snapshot's events that the frame shows for project i
ShownEvents(i) ==
    {m \in DOMAIN settled[i].value.recent_events :
        \E k \in DOMAIN frame.recentEvents :
            /\ frame.recentEvents[k].project = projectNames[i]
            /\ frame.recentEvents[k].event = settled[i].value.recent_events[m].event}

\* C29: the pages a project contributes are the 3 pages of its snapshot with
\* the most visitors (all when it has fewer), and the events it contributes
\* are its 3 most recent, whatever the order the server sent them in.  (With
\* at most two projects the caps of the frame cut nothing, so the frame shows
\* all that each project contributes.)
ContributesHighestThree ==
    (pc = "rendered" /\ Len(projectNames) <= 2) =>
        \A i \in Targets :
            /\ Cardinality(ShownPages(i)) = Share(Len(settled[i].value.top_pages))
            /\ \A m \in ShownPages(i) :
                  \A n \in DOMAIN settled[i].value.top_pages \ ShownPages(i) :
                      VisitorsKey(settled[i].value.top_pages[m])
                          >= VisitorsKey(settled[i].value.top_pages[n])
            /\ Cardinality(ShownEvents(i)) = Share(Len(settled[i].value.recent_events))
            /\ \A m \in ShownEvents(i) :
                  \A n \in DOMAIN settled[i].value.recent_events \ ShownEvents(i) :
                      TimestampKey(settled[i].value.recent_events[m])
                          >= TimestampKey(settled[i].value.recent_events[n])

----------------------------------------------------------------------------
(* Properties of the sleep *)

\* C30: whatever is passed as --interval (nothing, zero, a negative number,
\* text that is no number, another flag), every sleep the loop starts lasts a
\* positive whole number of seconds.
SleepIsPositive ==
    timers > 0 => sleepMs > 0 /\ sleepMs % 1000 = 0

\* C24: every tick is, in this order, one getLive request per target project in
\* project-list order carrying the configured window (a rejected one is not issued
\* again), then one full-screen write that starts with clear-and-home once every
\* request has settled, then one sleep of interval seconds
TickIsFetchRenderSleep ==
    /\ [](pc \in {"fetching", "sleeping"} =>
            /\ Len(sent) = Len(projectNames)
            /\ \A i \in 1..Len(projectNames) :
                  sent[i] = [name |-> projectNames[i], window |-> windowSec]
            /\ \A r \in inflight : r.idx \in 1..Len(projectNames) /\ r.window = windowSec)
    /\ [](pc = "fetching" => writes = <<>> /\ timers = 0)
    /\ [](pc = "sleeping" =>
            /\ Len(writes) = 2 /\ writes[1] = "\\x1b[2J\\x1b[H"
            /\ frameTick = tick
            /\ timers = 1 /\ sleepMs = interval * 1000)
    /\ [][/\ ((pc = "fetching" /\ pc' = "fetching") =>
                  (sent' = sent /\ inflight' \subseteq inflight /\ inflight' # inflight))
           /\ ((pc = "fetching" /\ pc' = "sleeping") =>
                  (sent' = sent /\ \A i \in 1..Len(projectNames) : settled'[i].done))
           /\ (writes' # writes =>
                  (\/ pc = "fetching" /\ pc' = "sleeping"
                   \/ pc = "sleeping" /\ pc' = "fetching" /\ writes' = <<>>))]_vars

\* a tick whose request for the first project was rejected has rendered and sleeps
TickIsFetchRenderSleepWitness ==
    /\ pc = "sleeping"
    /\ tick = MaxTicks
    /\ Len(projectNames) >= 2
    /\ settled[1].failed
    /\ ~settled[2].failed
    /\ Len(writes) = 2

\* C26: the rows of a frame follow the project list, and the row of a project shows
\* what that project's own fetch settled to, whatever the order in which the
\* fetches of the tick returned or threw
RowsFollowProjectList ==
    /\ [](pc = "sleeping" =>
            /\ Len(frame.rows) = Len(projectNames)
            /\ \A i \in 1..Len(projectNames) :
                  /\ frame.rows[i].name = projectNames[i]
                  /\ settled[i].value.name = projectNames[i]
                  /\ frame.rows[i].active =
                        (settled[i].value.active_visitors > 0 \/ settled[i].value.events_per_minute > 0)
                  /\ frame.rows[i].active =>
                        /\ frame.rows[i].visitors = settled[i].value.active_visitors
                        /\ frame.rows[i].sessions = settled[i].value.active_sessions
                        /\ frame.rows[i].epm = settled[i].value.events_per_minute)
    /\ [][(pc = "fetching" /\ arrived' # arrived) =>
              (/\ Len(arrived') = Len(arrived) + 1
               /\ \A j \in 1..Len(projectNames) :
                     IF j = arrived'[Len(arrived')]
                     THEN ~settled[j].done /\ settled'[j].done
                          /\ settled'[j].value.name = projectNames[j]
                     ELSE settled'[j] = settled[j])]_vars

\* a frame of a tick whose second project settled before its first, one of the
\* two with a failure, and whose rows differ
RowsFollowProjectListWitness ==
    /\ pc = "sleeping"
    /\ Len(arrived) >= 2
    /\ arrived[1] > arrived[2]
    /\ \E i \in 1..Len(projectNames) : settled[i].failed
    /\ frame.rows[1].active /\ ~frame.rows[2].active

\* C27: however the process of the live command ends once it has hidden the
\* cursor, by a signal, by an error or otherwise, the cursor is shown again
CursorNeverLeftHidden == pc = "exited" => ~cursorHidden

----------------------------------------------------------------------------
(* Properties of a run of the CLI *)

\* C22: a command that is none of the switch's cases ends the process with the
\* message "Unknown command: <command>" and a non-zero status, and no run that
\* reports an error ends with status 0
UnknownCommandExitsNonZero ==
    /\ [](errorMsg # "" => pc = "exited" /\ exitCode > 0)
    /\ []((pc = "exited" /\ Len(args) >= 1 /\ args[1] \notin KnownCommands) =>
            /\ errorMsg = "Unknown command: " \o args[1]
            /\ exitCode > 0
            /\ http.method = "")

\* the run of an unknown command, ended
UnknownCommandExitsNonZeroWitness ==
    /\ pc = "exited"
    /\ args = <<"nonexistent">>
    /\ errorMsg = "Unknown command: nonexistent"
    /\ exitCode = 1

\* C23: a command that needs the API, started with no key in the environment
\* and none stored, ends with the not-logged-in error and a non-zero status,
\* and no request is made at any point of the run
NotLoggedInBeforeAnyRequest ==
    (/\ pc = "start"
     /\ Len(args) >= 1
     /\ args[1] \in ApiCommands \cup {"live"}
     /\ env.AGENT_ANALYTICS_KEY \in {"", "(null)"}
     /\ env.AGENT_ANALYTICS_API_KEY \in {"", "(null)"}
     /\ \/ ~configFile.readable
        \/ "api_key" \notin DOMAIN configFile.content
        \/ configFile.content.api_key \in {"", "(null)", "(undefined)"})
    => [](/\ http.method = ""
          /\ listCalls = 0
          /\ sent = <<>>
          /\ inflight = {}
          /\ pc \in {"start", "api", "main", "exited"}
          /\ pc = "exited" => exitCode > 0 /\ errorMsg = "Not logged in")

\* `events` without a project and without a key: ended by the not-logged-in
\* error, not by the usage error
NotLoggedInBeforeAnyRequestWitness ==
    /\ pc = "exited"
    /\ args = <<"events">>
    /\ env.AGENT_ANALYTICS_KEY = ""
    /\ ~configFile.readable
    /\ errorMsg = "Not logged in"
    /\ exitCode = 1
    /\ http.method = ""

\* the account of the response that api.getAccount() returned
Account == IF http.data.kind = "object" THEN http.data.fields ELSE EmptyObject

\* C25: login with a token writes the configuration only once the account lookup
\* has returned, and then the stored configuration holds the token as api_key
\* and the account's email and github_login and the run ends with status 0; a
\* login that ends with a non-zero status has left the stored configuration as
\* it was
LoginStoresKeyOnSuccessOnly ==
    [][(Len(args) >= 1 /\ args[1] = "login") =>
          /\ configFile' # configFile =>
                /\ pc = "returned" /\ pc' = "exited" /\ exitCode' = 0
                /\ configFile'.readable
                /\ Get(configFile'.content, "api_key") = apiKey
                /\ apiKey = getArg(args, "--token")
                /\ Get(configFile'.content, "email") = Get(Account, "email")
                /\ Get(configFile'.content, "github_login") = Get(Account, "github_login")
          /\ (pc = "returned" /\ pc' = "exited" /\ exitCode' = 0) => configFile' # configFile
          /\ (pc' = "exited" /\ exitCode' > 0) => configFile' = configFile]_vars

\* C28: once revoke-key has succeeded and the server has issued a new key, what
\* getApiKey returns from then on is the new key and not the revoked one
RevokedKeyNotUsedAgain ==
    [][(/\ Len(args) >= 1 /\ args[1] = "revoke-key"
        /\ pc = "returned" /\ pc' = "exited" /\ exitCode' = 0
        /\ Get(Account, "api_key") \notin {"", "(null)", "(undefined)"}) =>
          /\ getApiKey(env', configFile') = Get(Account, "api_key")
          /\ getApiKey(env', configFile') # apiKey]_vars
====
